---- MODULE Spec2Model ----
(***************************************************************************)
(* OKE node inspector (src/oci_oke_node_inspector.py): quantity parsing,   *)
(* node record construction, usage classification, filter / sort pipeline  *)
(* and cluster summary.                                                    *)
(*                                                                         *)
(* Conventions of the model                                                *)
(*  - a Python str is a sequence of one-character strings;                 *)
(*  - the outcome of a call is [ret |-> v] (it returned v) or              *)
(*    [exc |-> "ValueError"] (it raised);                                  *)
(*  - a Python int that may exceed 31 bits (a byte count out of            *)
(*    parse_memory) is a wide integer [hi, lo] = hi * 2^20 + lo with       *)
(*    0 <= lo < 2^20;                                                      *)
(*  - a float quotient a / b is the exact fraction [num |-> a, den |-> b], *)
(*    den > 0: comparisons are by cross multiplication.                    *)
(***************************************************************************)
EXTENDS Integers, Sequences, FiniteSets

VARIABLES
    pc,            \* position of the running program
    raw,           \* SpecParse: the quantity string handed to the parsers
    cpu_result,    \* SpecParse: outcome of parse_cpu(raw)
    mem_result,    \* SpecParse: outcome of parse_memory(raw)
    percent_a,     \* SpecClassify: a usage percentage
    percent_b,     \* SpecClassify: a second usage percentage
    color_a,       \* SpecClassify: get_color_for_usage(percent_a)
    color_b,       \* SpecClassify: get_color_for_usage(percent_b)
    cluster,       \* Spec: what the cluster API serves (nodes, samples, pods)
    metrics_mode,  \* Spec: "ok", "raises" (the listing fails), "none" (no client)
    opts,          \* Spec: the command-line options of main
    nodes,         \* Spec: main's local list of NodeMetrics
    summary,       \* Spec: the rows print_summary rendered
    printed,       \* Spec: the panels print_node_details rendered, in order
    exit_code      \* Spec: the status main exited with (0: it returned)

parseVars == <<raw, cpu_result, mem_result>>

classVars == <<percent_a, percent_b, color_a, color_b>>

mainVars == <<cluster, metrics_mode, opts, nodes, summary, printed, exit_code>>

vars == <<pc, parseVars, classVars, mainVars>>

\* ------------------------------------------------------------------ bounds

\* longest enumerated quantity string (longer fixtures are listed by hand)
MaxLen == 3

\* ----------------------------------------------------------------- strings

Digits == <<"0", "1", "2", "3", "4", "5", "6", "7", "8", "9">>

DigitChars == {Digits[i] : i \in 1..10}

\* str.isspace() characters that occur in quantity strings
Whitespace == {" ", "\t", "\n"}

DigitVal(c) == (CHOOSE i \in 1..10 : Digits[i] = c) - 1

\* s.endswith(suffix)
EndsWith(s, suffix) ==
    /\ Len(s) >= Len(suffix)
    /\ SubSeq(s, Len(s) - Len(suffix) + 1, Len(s)) = suffix

\* s[:-k]
DropLast(s, k) == SubSeq(s, 1, Len(s) - k)

RECURSIVE LStrip(_)
LStrip(s) == IF s # <<>> /\ Head(s) \in Whitespace THEN LStrip(Tail(s)) ELSE s

RECURSIVE RStrip(_)
RStrip(s) ==
    IF s # <<>> /\ s[Len(s)] \in Whitespace THEN RStrip(DropLast(s, 1)) ELSE s

\* str.strip()
Strip(s) == RStrip(LStrip(s))

\* ------------------------------------------------------------- int(str)

Raise == [exc |-> "ValueError"]

Return(v) == [ret |-> v]

Returned(r) == "ret" \in DOMAIN r

\* the decimal literal int() accepts once whitespace and sign are removed:
\* digits, with single underscores allowed between two digits
IsIntBody(b) ==
    /\ b # <<>>
    /\ \A i \in 1..Len(b) : b[i] \in DigitChars \cup {"_"}
    /\ b[1] # "_"
    /\ b[Len(b)] # "_"
    /\ \A i \in 1..(Len(b) - 1) : ~(b[i] = "_" /\ b[i + 1] = "_")

RECURSIVE BodyValue(_, _)
BodyValue(b, acc) ==
    IF b = <<>> THEN acc
    ELSE IF Head(b) = "_" THEN BodyValue(Tail(b), acc)
    ELSE BodyValue(Tail(b), acc * 10 + DigitVal(Head(b)))

\* Python's int(s) for a str s, base 10
IntOf(s) ==
    LET t == Strip(s)
        signed == t # <<>> /\ Head(t) \in {"+", "-"}
        body == IF signed THEN Tail(t) ELSE t
        mag == BodyValue(body, 0)
    IN  IF ~IsIntBody(body) THEN Raise
        ELSE Return(IF signed /\ Head(t) = "-" THEN 0 - mag ELSE mag)

\* ---------------------------------------------------------- wide integers

WideBase == 1024 * 1024

ToWide(n) == [hi |-> n \div WideBase, lo |-> n % WideBase]

\* w * f for a factor 0 < f <= 1024
WideMul(w, f) ==
    LET p == w.lo * f
    IN  [hi |-> w.hi * f + (p \div WideBase), lo |-> p % WideBase]

\* the plain integer, where it fits
Narrow(w) == w.hi * WideBase + w.lo

\* ------------------------------------------------------------- parse_cpu

\* parse_cpu rounding nanocores to the nearest millicore
parse_cpu_rounding(cpu_str) ==
    IF EndsWith(cpu_str, <<"n">>) THEN
        LET r == IntOf(DropLast(cpu_str, 1))
        IN  IF Returned(r) THEN Return((r.ret + 500000) \div 1000000) ELSE r
    ELSE IF EndsWith(cpu_str, <<"m">>) THEN
        IntOf(DropLast(cpu_str, 1))
    ELSE
        LET r == IntOf(cpu_str)
        IN  IF Returned(r) THEN Return(r.ret * 1000) ELSE r

parse_cpu(cpu_str) ==
    IF EndsWith(cpu_str, <<"n">>) THEN
        LET r == IntOf(DropLast(cpu_str, 1))
        IN  IF Returned(r) THEN Return(r.ret \div 1000000) ELSE r
    ELSE IF EndsWith(cpu_str, <<"m">>) THEN
        IntOf(DropLast(cpu_str, 1))
    ELSE
        LET r == IntOf(cpu_str)
        IN  IF Returned(r) THEN Return(r.ret * 1000) ELSE r

\* ---------------------------------------------------------- parse_memory

\* int(text) * f1 * f2 * ... , left to right
Scaled(text, factors) ==
    LET r == IntOf(text)
        RECURSIVE Times(_, _)
        Times(w, fs) == IF fs = <<>> THEN w ELSE Times(WideMul(w, Head(fs)), Tail(fs))
    IN  IF Returned(r) THEN Return(Times(ToWide(r.ret), factors)) ELSE r

\* parse_memory taking the binary suffixes for decimal ones
parse_memory_decimal(mem_str) ==
    LET s == Strip(mem_str)
    IN  IF EndsWith(s, <<"K", "i">>) THEN Scaled(DropLast(s, 2), <<1000>>)
        ELSE IF EndsWith(s, <<"M", "i">>) THEN Scaled(DropLast(s, 2), <<1000, 1000>>)
        ELSE IF EndsWith(s, <<"G", "i">>) THEN Scaled(DropLast(s, 2), <<1000, 1000, 1000>>)
        ELSE IF EndsWith(s, <<"K">>) THEN Scaled(DropLast(s, 1), <<1000>>)
        ELSE IF EndsWith(s, <<"M">>) THEN Scaled(DropLast(s, 1), <<1000, 1000>>)
        ELSE IF EndsWith(s, <<"G">>) THEN Scaled(DropLast(s, 1), <<1000, 1000, 1000>>)
        ELSE Scaled(s, <<>>)

parse_memory(mem_str) ==
    LET s == Strip(mem_str)
    IN  IF EndsWith(s, <<"K", "i">>) THEN Scaled(DropLast(s, 2), <<1024>>)
        ELSE IF EndsWith(s, <<"M", "i">>) THEN Scaled(DropLast(s, 2), <<1024, 1024>>)
        ELSE IF EndsWith(s, <<"G", "i">>) THEN Scaled(DropLast(s, 2), <<1024, 1024, 1024>>)
        ELSE IF EndsWith(s, <<"K">>) THEN Scaled(DropLast(s, 1), <<1000>>)
        ELSE IF EndsWith(s, <<"M">>) THEN Scaled(DropLast(s, 1), <<1000, 1000>>)
        ELSE IF EndsWith(s, <<"G">>) THEN Scaled(DropLast(s, 1), <<1000, 1000, 1000>>)
        ELSE Scaled(s, <<>>)

\* ------------------------------------------------- SpecParse: the parsers

\* characters of the enumerated quantity strings
Alphabet == {"0", "1", "2", "n", "m", "K", "M", "G", "i", " ", "_", "-", "x"}

\* quantity strings longer than MaxLen
Fixtures == {
    <<"5", "0", "0", "m">>,
    <<"2", "5", "0", "0", "0", "0", "0", "0", "0", "n">>,
    <<"2", "5", "0", "9", "9", "9", "9", "9", "9", "n">>,
    <<"9", "9", "9", "9", "9", "9", "n">>,
    <<"1", "0", "0", "0", "M">>,
    <<"1", "0", "0", "0", "0", "0", "0">>,
    <<" ", "1", "6", "G", "i", " ">>,
    <<"+", "4", "M", "i">>,
    <<"1", "_", "0", "0", "0", "m">>,
    <<"1", ".", "5">>,
    <<"1", "e", "3">>,
    <<"1", "T", "i">>,
    <<"2", "k">>
}

Strings(n) == UNION {[1..k -> Alphabet] : k \in 0..n}

Inputs == Strings(MaxLen) \cup Fixtures

NoResult == [exc |-> "not called"]

NoSummary == [rendered |-> FALSE]

ParseIdle == raw = <<>> /\ cpu_result = NoResult /\ mem_result = NoResult

ClassIdle ==
    /\ percent_a = [num |-> 0, den |-> 1]
    /\ percent_b = [num |-> 0, den |-> 1]
    /\ color_a = "none"
    /\ color_b = "none"

MainIdle ==
    /\ cluster = <<>>
    /\ metrics_mode = "ok"
    /\ opts = [filter_tainted |-> FALSE, filter_high_usage |-> FALSE, sort_by |-> "name"]
    /\ nodes = <<>>
    /\ summary = NoSummary
    /\ printed = <<>>
    /\ exit_code = 0

InitParse ==
    /\ pc = "input"
    /\ raw \in Inputs
    /\ cpu_result = NoResult
    /\ mem_result = NoResult
    /\ ClassIdle
    /\ MainIdle

ParseCpu ==
    /\ pc = "input"
    /\ cpu_result' = parse_cpu(raw)
    /\ pc' = "parsed_cpu"
    /\ UNCHANGED <<raw, mem_result, classVars, mainVars>>

ParseMemory ==
    /\ pc = "input"
    /\ mem_result' = parse_memory(raw)
    /\ pc' = "parsed_memory"
    /\ UNCHANGED <<raw, cpu_result, classVars, mainVars>>

NextParse == ParseCpu \/ ParseMemory

SpecParse == InitParse /\ [][NextParse]_vars

\* ------------------------------------------------ quantity-string grammar
\* (the textual convention the claims are stated against; independent of
\* IntOf)

DigitString(s) == s # <<>> /\ \A i \in 1..Len(s) : s[i] \in DigitChars

RECURSIVE DecimalValue(_)
DecimalValue(s) ==
    IF s = <<>> THEN 0
    ELSE DecimalValue(DropLast(s, 1)) * 10 + DigitVal(s[Len(s)])

\* <int>: digits, optionally signed
IntLiteral(s) ==
    \/ DigitString(s)
    \/ s # <<>> /\ Head(s) \in {"+", "-"} /\ DigitString(Tail(s))

LiteralValue(s) ==
    IF Head(s) = "-" THEN 0 - DecimalValue(Tail(s))
    ELSE IF Head(s) = "+" THEN DecimalValue(Tail(s))
    ELSE DecimalValue(s)

\* s is text followed by suffix, and text is an <int>
IsQuantity(s, suffix) == EndsWith(s, suffix) /\ IntLiteral(DropLast(s, Len(suffix)))

QuantityValue(s, suffix) == LiteralValue(DropLast(s, Len(suffix)))

\* w is exactly v * f1 * f2 * ..., established by dividing w back
RECURSIVE IsProduct(_, _, _)
IsProduct(w, v, factors) ==
    IF factors = <<>> THEN w = [hi |-> v \div WideBase, lo |-> v % WideBase]
    ELSE LET f == factors[Len(factors)]
             t == (w.hi % f) * WideBase + w.lo
         IN  /\ t % f = 0
             /\ IsProduct([hi |-> w.hi \div f, lo |-> t \div f], v,
                          DropLast(factors, 1))

MemorySuffixes == <<
    [suffix |-> <<"K", "i">>, factors |-> <<1024>>],
    [suffix |-> <<"M", "i">>, factors |-> <<1024, 1024>>],
    [suffix |-> <<"G", "i">>, factors |-> <<1024, 1024, 1024>>],
    [suffix |-> <<"K">>, factors |-> <<1000>>],
    [suffix |-> <<"M">>, factors |-> <<1000, 1000>>],
    [suffix |-> <<"G">>, factors |-> <<1000, 1000, 1000>>],
    [suffix |-> <<>>, factors |-> <<>>] >>

\* ------------------------------------------------------------ claims C1-C3

\* C1: parse_cpu of '<int>n' is floor(int / 1,000,000) millicores (the
\* remainder is discarded, not rounded), of '<int>m' is int, of a
\* suffix-less '<int>' is int * 1000; "500m" -> 500, "2" -> 2000,
\* "250000000n" -> 250.
C1_ParseCpu ==
    pc = "parsed_cpu" =>
        /\ IsQuantity(raw, <<"n">>) =>
               cpu_result = Return(QuantityValue(raw, <<"n">>) \div 1000000)
        /\ IsQuantity(raw, <<"m">>) =>
               cpu_result = Return(QuantityValue(raw, <<"m">>))
        /\ IsQuantity(raw, <<>>) =>
               cpu_result = Return(QuantityValue(raw, <<>>) * 1000)
        /\ raw = <<"5", "0", "0", "m">> => cpu_result = Return(500)
        /\ raw = <<"2">> => cpu_result = Return(2000)
        /\ raw = <<"2", "5", "0", "0", "0", "0", "0", "0", "0", "n">> =>
               cpu_result = Return(250)
        /\ raw = <<"2", "5", "0", "9", "9", "9", "9", "9", "9", "n">> =>
               cpu_result = Return(250)
        /\ raw = <<"9", "9", "9", "9", "9", "9", "n">> => cpu_result = Return(0)

\* a nanocore quantity with a remainder above half a millicore was parsed
C1_Witness ==
    /\ pc = "parsed_cpu"
    /\ raw = <<"2", "5", "0", "9", "9", "9", "9", "9", "9", "n">>
    /\ cpu_result = Return(250)

\* C2: parse_memory trims surrounding whitespace and returns int times the
\* multiplier of the suffix: Ki 1024, Mi 1024^2, Gi 1024^3, K 1000,
\* M 1000^2, G 1000^3, none 1; "1Ki" -> 1024, "2Gi" -> 2147483648
\* (= 2048 * 2^20), "1000M" -> 1000000000, "1000000" -> 1000000.
C2_ParseMemory ==
    pc = "parsed_memory" =>
        /\ \A k \in 1..Len(MemorySuffixes) :
               LET e == MemorySuffixes[k]
                   s == Strip(raw)
               IN  (/\ IsQuantity(s, e.suffix)
                    /\ \A j \in 1..(k - 1) : ~EndsWith(s, MemorySuffixes[j].suffix))
                   => /\ Returned(mem_result)
                      /\ IsProduct(mem_result.ret, QuantityValue(s, e.suffix), e.factors)
        /\ raw = <<"1", "K", "i">> => mem_result = Return([hi |-> 0, lo |-> 1024])
        /\ raw = <<"2", "G", "i">> => mem_result = Return([hi |-> 2048, lo |-> 0])
        /\ raw = <<"1", "0", "0", "0", "M">> =>
               /\ Returned(mem_result)
               /\ Narrow(mem_result.ret) = 1000000000
        /\ raw = <<"1", "0", "0", "0", "0", "0", "0">> =>
               /\ Returned(mem_result)
               /\ Narrow(mem_result.ret) = 1000000

\* a whitespace-padded binary quantity was parsed with the binary multiplier
C2_Witness ==
    /\ pc = "parsed_memory"
    /\ raw = <<" ", "1", "6", "G", "i", " ">>
    /\ mem_result = Return([hi |-> 16 * 1024, lo |-> 0])

\* The weakest reading of "numeric with a recognized suffix": surrounding
\* whitespace is tolerated, a sign is tolerated, the rest is digits followed
\* by one of the unit suffixes.
WellFormedCpu(s) ==
    \E suffix \in {<<>>, <<"m">>, <<"n">>} :
        /\ EndsWith(Strip(s), suffix)
        /\ IntLiteral(Strip(DropLast(Strip(s), Len(suffix))))

WellFormedMemory(s) ==
    \E k \in 1..Len(MemorySuffixes) :
        /\ EndsWith(Strip(s), MemorySuffixes[k].suffix)
        /\ IntLiteral(Strip(DropLast(Strip(s), Len(MemorySuffixes[k].suffix))))

\* C3: a CPU or memory quantity string that is non-numeric or carries an
\* unrecognized suffix never makes a parser return a number.
C3_MalformedNeverReturns ==
    /\ (pc = "parsed_cpu" /\ ~WellFormedCpu(raw)) => ~Returned(cpu_result)
    /\ (pc = "parsed_memory" /\ ~WellFormedMemory(raw)) => ~Returned(mem_result)

\* ================================================== get_color_for_usage

\* exact fractions standing for float quotients
Frac(n, d) == [num |-> n, den |-> d]

FracLess(a, b) == a.num * b.den < b.num * a.den

FracEq(a, b) == a.num * b.den = b.num * a.den

\* percent >= k, for an integer k
AtLeast(percent, k) == percent.num >= k * percent.den

\* get_color_for_usage with the boundaries exclusive (> for >=)
get_color_exclusive(percent) ==
    IF percent.num > 90 * percent.den THEN "red"
    ELSE IF percent.num > 75 * percent.den THEN "yellow"
    ELSE IF percent.num > 50 * percent.den THEN "cyan"
    ELSE "green"

get_color_for_usage(percent) ==
    IF AtLeast(percent, 90) THEN "red"
    ELSE IF AtLeast(percent, 75) THEN "yellow"
    ELSE IF AtLeast(percent, 50) THEN "cyan"
    ELSE "green"

\* ------------------------------------------ SpecClassify: the classifier

\* largest enumerated percentage (in halves of a percent up to this)
MaxPercent == 110

\* percentages next to the band boundaries and far above 100
PercentFixtures ==
    {Frac(n, 1000) : n \in {49999, 50001, 74999, 75001, 89999, 90001, 100001}}
        \cup {Frac(250, 1), Frac(1000, 1), Frac(0 - 5, 1)}

Percents == {Frac(n, 2) : n \in 0..(2 * MaxPercent)} \cup PercentFixtures

\* the second percentage: the band boundaries and their neighbours
Boundaries ==
    {Frac(n, 1) : n \in {0, 49, 50, 51, 74, 75, 76, 89, 90, 91, 100, 101}}
        \cup PercentFixtures

InitClassify ==
    /\ pc = "input"
    /\ percent_a \in Percents
    /\ percent_b \in Boundaries
    /\ color_a = "none"
    /\ color_b = "none"
    /\ ParseIdle
    /\ MainIdle

Classify ==
    /\ pc = "input"
    /\ color_a' = get_color_for_usage(percent_a)
    /\ color_b' = get_color_for_usage(percent_b)
    /\ pc' = "classified"
    /\ UNCHANGED <<percent_a, percent_b, parseVars, mainVars>>

NextClassify == Classify

SpecClassify == InitClassify /\ [][NextClassify]_vars

\* ---------------------------------------------------------------- claim C5

\* Critical = "red", High = "yellow", Medium = "cyan", Low = "green"
BandRank(color) ==
    CASE color = "green" -> 0
      [] color = "cyan" -> 1
      [] color = "yellow" -> 2
      [] color = "red" -> 3

\* k <= percent, percent < k, for an integer k, stated on the fraction
GeqInt(p, k) == ~FracLess(p, Frac(k, 1))

\* C5: the band is a total function of the percentage with lower-inclusive
\* boundaries (>= 90 Critical, [75, 90) High, [50, 75) Medium, < 50 Low); it
\* is monotonic, and a percentage above 100 is Critical.
C5_Classify ==
    pc = "classified" =>
        /\ color_a \in {"green", "cyan", "yellow", "red"}
        /\ color_a = "red" <=> GeqInt(percent_a, 90)
        /\ color_a = "yellow" <=> GeqInt(percent_a, 75) /\ ~GeqInt(percent_a, 90)
        /\ color_a = "cyan" <=> GeqInt(percent_a, 50) /\ ~GeqInt(percent_a, 75)
        /\ color_a = "green" <=> ~GeqInt(percent_a, 50)
        /\ ~FracLess(percent_b, percent_a) => BandRank(color_a) <= BandRank(color_b)
        /\ FracLess(Frac(100, 1), percent_a) => color_a = "red"
        /\ percent_a = Frac(89999, 1000) => color_a = "yellow"
        /\ percent_a = Frac(90, 1) => color_a = "red"
        /\ percent_a = Frac(75, 1) => color_a = "yellow"
        /\ FracEq(percent_a, percent_b) => color_a = color_b

\* exactly 90.0 and 89.999 were classified, into different bands
C5_Witness ==
    /\ pc = "classified"
    /\ percent_a = Frac(180, 2)
    /\ percent_b = Frac(89999, 1000)
    /\ color_a = "red"
    /\ color_b = "yellow"

\* ====================================================== get_node_metrics

\* dict.get(key, default)
Get(map, key, default) == IF key \in DOMAIN map THEN map[key] ELSE default

\* metrics_api.list_node_metrics(): the samples the metrics API holds, or
\* the exception of an unreachable API ("raises") or of a client that was
\* never set up (metrics_api is None: "none")
list_node_metrics(mode, served) ==
    IF mode = "ok" THEN
        LET sampled == SelectSeq(served, LAMBDA e : e.sample # <<>>)
        IN  Return([k \in 1..Len(sampled) |->
                       [name |-> sampled[k].node.name, usage |-> sampled[k].sample[1]]])
    ELSE IF mode = "raises" THEN [exc |-> "ApiException"]
    ELSE [exc |-> "AttributeError"]

\* {m.metadata.name: m for m in metrics.items}, or {} when the listing raised
MetricsMap(listing) ==
    IF Returned(listing) THEN
        LET items == listing.ret
        IN  [n \in {items[k].name : k \in 1..Len(items)} |->
                items[CHOOSE k \in 1..Len(items) :
                          /\ items[k].name = n
                          /\ \A j \in (k + 1)..Len(items) : items[j].name # n].usage]
    ELSE <<>>

ReadyStatus(conditions) ==
    IF \E k \in 1..Len(conditions) :
           conditions[k].type = "Ready" /\ conditions[k].status = "True"
    THEN "Ready" ELSE "NotReady"

\* one iteration of the loop over nodes.items: the NodeMetrics of one node,
\* or the ValueError of the first quantity that does not parse
BuildNode(e, metrics_map) ==
    LET node == e.node
        name == node.name
        cpu_capacity == IntOf(Get(node.capacity, "cpu", <<"0">>))
        memory_capacity == parse_memory(Get(node.capacity, "memory", <<"0">>))
        pod_capacity == IntOf(Get(node.allocatable, "pods", <<"0">>))
        sampled == name \in DOMAIN metrics_map
        cpu_usage ==
            IF sampled THEN parse_cpu(Get(metrics_map[name], "cpu", <<"0">>))
            ELSE Return(0)
        memory_usage ==
            IF sampled THEN parse_memory(Get(metrics_map[name], "memory", <<"0">>))
            ELSE Return(ToWide(0))
    IN  IF ~Returned(cpu_capacity) THEN cpu_capacity
        ELSE IF ~Returned(memory_capacity) THEN memory_capacity
        ELSE IF ~Returned(pod_capacity) THEN pod_capacity
        ELSE IF ~Returned(cpu_usage) THEN cpu_usage
        ELSE IF ~Returned(memory_usage) THEN memory_usage
        ELSE Return([name |-> name,
                     cpu_usage |-> cpu_usage.ret,
                     cpu_capacity |-> cpu_capacity.ret * 1000,
                     memory_usage |-> Narrow(memory_usage.ret),
                     memory_capacity |-> Narrow(memory_capacity.ret),
                     pod_count |-> e.pods,
                     pod_capacity |-> pod_capacity.ret,
                     status |-> ReadyStatus(node.conditions),
                     labels |-> node.labels,
                     conditions |-> node.conditions,
                     taints |-> node.taints])

\* for node in nodes.items: ... node_metrics.append(NodeMetrics(...)); a
\* ValueError leaves the loop and the function
RECURSIVE BuildLoop(_, _, _)
BuildLoop(items, metrics_map, node_metrics) ==
    IF items = <<>> THEN Return(node_metrics)
    ELSE IF Returned(BuildNode(Head(items), metrics_map))
    THEN BuildLoop(Tail(items), metrics_map,
                   Append(node_metrics, BuildNode(Head(items), metrics_map).ret))
    ELSE BuildNode(Head(items), metrics_map)

\* get_node_metrics without the try / except around the metrics listing
get_node_metrics_no_fallback(served, mode) ==
    IF Returned(list_node_metrics(mode, served))
    THEN BuildLoop(served, MetricsMap(list_node_metrics(mode, served)), <<>>)
    ELSE list_node_metrics(mode, served)

get_node_metrics(served, mode) ==
    BuildLoop(served, MetricsMap(list_node_metrics(mode, served)), <<>>)

\* ========================================================= main: filters

Tainted(n) == n.taints # <<>>

\* n.cpu_usage / n.cpu_capacity * 100 >= 75 ..., the comparison off by the
\* boundary
HighUsageInclusive(n) ==
    \/ n.cpu_capacity > 0 /\ n.cpu_usage * 100 >= 75 * n.cpu_capacity
    \/ n.memory_capacity > 0 /\ n.memory_usage * 100 >= 75 * n.memory_capacity

HighUsage(n) ==
    \/ n.cpu_capacity > 0 /\ n.cpu_usage * 100 > 75 * n.cpu_capacity
    \/ n.memory_capacity > 0 /\ n.memory_usage * 100 > 75 * n.memory_capacity

\* ============================================================ main: sort

\* code points of the characters of node names
Ord(c) ==
    CASE c = "-" -> 45
      [] c = "A" -> 65
      [] c = "B" -> 66
      [] c = "C" -> 67
      [] c = "G" -> 71
      [] c = "H" -> 72
      [] c = "N" -> 78
      [] c = "d" -> 100
      [] c = "e" -> 101
      [] c = "n" -> 110
      [] c = "o" -> 111

\* a < b on Python str
RECURSIVE StrLess(_, _)
StrLess(a, b) ==
    IF b = <<>> THEN FALSE
    ELSE IF a = <<>> THEN TRUE
    ELSE IF Head(a) = Head(b) THEN StrLess(Tail(a), Tail(b))
    ELSE Ord(Head(a)) < Ord(Head(b))

\* the key lambdas of the three numeric orders
RatioKey(usage, capacity) == IF capacity > 0 THEN Frac(usage, capacity) ELSE Frac(0, 1)

SortKey(n, sort_by) ==
    CASE sort_by = "cpu" -> RatioKey(n.cpu_usage, n.cpu_capacity)
      [] sort_by = "memory" -> RatioKey(n.memory_usage, n.memory_capacity)
      [] sort_by = "pods" -> RatioKey(n.pod_count, n.pod_capacity)

\* a sorts strictly before b: a larger key first (reverse=True), a smaller
\* name first
Before(a, b, sort_by) ==
    IF sort_by \in {"cpu", "memory", "pods"}
    THEN FracLess(SortKey(b, sort_by), SortKey(a, sort_by))
    ELSE StrLess(a.name, b.name)

\* a sort that puts an element before the elements it ties with (what
\* sorting ascending and reversing the list does)
RECURSIVE SortNodesReversingTies(_, _)
SortNodesReversingTies(seq, sort_by) ==
    IF seq = <<>> THEN <<>>
    ELSE LET sorted == SortNodesReversingTies(DropLast(seq, 1), sort_by)
             x == seq[Len(seq)]
             k == Cardinality({j \in 1..Len(sorted) : Before(sorted[j], x, sort_by)})
         IN  SubSeq(sorted, 1, k) \o <<x>> \o SubSeq(sorted, k + 1, Len(sorted))

\* list.sort(key=..., reverse=...): stable, also with reverse=True
RECURSIVE SortNodes(_, _)
SortNodes(seq, sort_by) ==
    IF seq = <<>> THEN <<>>
    ELSE LET sorted == SortNodes(DropLast(seq, 1), sort_by)
             x == seq[Len(seq)]
             k == Cardinality({j \in 1..Len(sorted) : ~Before(x, sorted[j], sort_by)})
         IN  SubSeq(sorted, 1, k) \o <<x>> \o SubSeq(sorted, k + 1, Len(sorted))

\* ========================================================= print_summary

RECURSIVE Sum(_, _)
Sum(seq, field) == IF seq = <<>> THEN 0 ELSE seq[1][field] + Sum(Tail(seq), field)

\* usage / capacity * 100 if capacity > 0 else 0
Percent(usage, capacity) ==
    IF capacity > 0 THEN Frac(usage * 100, capacity) ELSE Frac(0, 1)

RECURSIVE Gcd(_, _)
Gcd(a, b) == IF b = 0 THEN a ELSE Gcd(b, a % b)

\* a fraction in lowest terms
Reduced(f) == Frac(f.num \div Gcd(f.num, f.den), f.den \div Gcd(f.num, f.den))

\* the mean of the per-node percentages, as a fraction
RECURSIVE MeanPercentSum(_, _, _)
MeanPercentSum(seq, usage, capacity) ==
    IF seq = <<>> THEN Frac(0, 1)
    ELSE LET p == Reduced(Percent(seq[1][usage], seq[1][capacity]))
             rest == MeanPercentSum(Tail(seq), usage, capacity)
         IN  Reduced(Frac(p.num * rest.den + rest.num * p.den, p.den * rest.den))

MeanPercent(seq, usage, capacity) ==
    IF seq = <<>> THEN Frac(0, 1)
    ELSE LET t == MeanPercentSum(seq, usage, capacity)
         IN  Reduced(Frac(t.num, t.den * Len(seq)))

\* print_summary averaging the per-node ratios
print_summary_mean(ns) ==
    [rendered |-> TRUE,
     total_nodes |-> Len(ns),
     ready_nodes |-> Len(SelectSeq(ns, LAMBDA n : n.status = "Ready")),
     tainted_nodes |-> Len(SelectSeq(ns, Tainted)),
     total_cpu_usage |-> Sum(ns, "cpu_usage"),
     total_cpu_capacity |-> Sum(ns, "cpu_capacity"),
     total_mem_usage |-> Sum(ns, "memory_usage"),
     total_mem_capacity |-> Sum(ns, "memory_capacity"),
     total_pods |-> Sum(ns, "pod_count"),
     cpu_percent |-> MeanPercent(ns, "cpu_usage", "cpu_capacity"),
     mem_percent |-> MeanPercent(ns, "memory_usage", "memory_capacity"),
     cpu_color |-> get_color_for_usage(MeanPercent(ns, "cpu_usage", "cpu_capacity")),
     mem_color |-> get_color_for_usage(MeanPercent(ns, "memory_usage", "memory_capacity"))]

\* the values print_summary computes and renders
print_summary(ns) ==
    LET total_cpu_usage == Sum(ns, "cpu_usage")
        total_cpu_capacity == Sum(ns, "cpu_capacity")
        total_mem_usage == Sum(ns, "memory_usage")
        total_mem_capacity == Sum(ns, "memory_capacity")
        cpu_percent == Percent(total_cpu_usage, total_cpu_capacity)
        mem_percent == Percent(total_mem_usage, total_mem_capacity)
    IN  [rendered |-> TRUE,
         total_nodes |-> Len(ns),
         ready_nodes |-> Len(SelectSeq(ns, LAMBDA n : n.status = "Ready")),
         tainted_nodes |-> Len(SelectSeq(ns, Tainted)),
         total_cpu_usage |-> total_cpu_usage,
         total_cpu_capacity |-> total_cpu_capacity,
         total_mem_usage |-> total_mem_usage,
         total_mem_capacity |-> total_mem_capacity,
         total_pods |-> Sum(ns, "pod_count"),
         cpu_percent |-> cpu_percent,
         mem_percent |-> mem_percent,
         cpu_color |-> get_color_for_usage(cpu_percent),
         mem_color |-> get_color_for_usage(mem_percent)]

\* ==================================================== print_node_details

print_node_details(n) ==
    LET cpu_percent == Percent(n.cpu_usage, n.cpu_capacity)
        mem_percent == Percent(n.memory_usage, n.memory_capacity)
        pod_percent == Percent(n.pod_count, n.pod_capacity)
    IN  [title |-> n.name,
         status_color |-> IF n.status = "Ready" THEN "green" ELSE "red",
         pod_color |-> get_color_for_usage(pod_percent),
         cpu_color |-> get_color_for_usage(cpu_percent),
         mem_color |-> get_color_for_usage(mem_percent),
         taints |-> [k \in 1..Len(n.taints) |-> <<n.taints[k].key, n.taints[k].effect>>]]

\* ======================================================== Spec: main()

\* most nodes a served cluster holds
MaxNodes == 3

Taint(key) == [key |-> key, effect |-> "NoSchedule", value |-> ""]

Condition(type, status) == [type |-> type, status |-> status, reason |-> ""]

\* What the cluster API serves for one node: the node object, its usage
\* sample if the metrics API holds one (a sequence of 0 or 1), the number of
\* pods scheduled on it.

\* 900m of 1 core (90%), memory 25%, pods 90%, Ready, no taint
NodeA ==
    [node |-> [name |-> <<"N", "o", "d", "e", "A">>,
               capacity |-> [cpu |-> <<"1">>, memory |-> <<"4", "K", "i">>],
               allocatable |-> [pods |-> <<"1", "0">>],
               conditions |-> <<Condition("Ready", "True")>>,
               labels |-> [pool |-> "general"],
               taints |-> <<>>],
     sample |-> <<[cpu |-> <<"9", "0", "0", "m">>, memory |-> <<"1", "K", "i">>]>>,
     pods |-> 9]

\* 100m of 2 cores (5%), memory exactly 75%, pods 50%, NotReady, one taint
NodeB ==
    [node |-> [name |-> <<"N", "o", "d", "e", "B">>,
               capacity |-> [cpu |-> <<"2">>, memory |-> <<"4", "K", "i">>],
               allocatable |-> [pods |-> <<"1", "0">>],
               conditions |-> <<Condition("Ready", "False"),
                                Condition("MemoryPressure", "True")>>,
               labels |-> [pool |-> "general"],
               taints |-> <<Taint("dedicated")>>],
     sample |-> <<[cpu |-> <<"1", "0", "0", "m">>, memory |-> <<"3", "K", "i">>]>>,
     pods |-> 5]

\* no usage sample, 1 core, no pods, Ready, no taint
NodeC ==
    [node |-> [name |-> <<"N", "o", "d", "e", "C">>,
               capacity |-> [cpu |-> <<"1">>, memory |-> <<"4", "K", "i">>],
               allocatable |-> [pods |-> <<"1", "0">>],
               conditions |-> <<Condition("DiskPressure", "False"),
                                Condition("Ready", "True")>>,
               labels |-> [autoscaler |-> "on"],
               taints |-> <<>>],
     sample |-> <<>>,
     pods |-> 0]

\* mid-registration: zero CPU capacity, no memory capacity and no pod
\* allocation reported, yet usage and pods; no condition; two taints
NodeD ==
    [node |-> [name |-> <<"n", "o", "d", "e", "-", "d">>,
               capacity |-> [cpu |-> <<"0">>],
               allocatable |-> <<>>,
               conditions |-> <<>>,
               labels |-> <<>>,
               taints |-> <<Taint("node.kubernetes.io/not-ready"), Taint("dedicated")>>],
     sample |-> <<[cpu |-> <<"5", "0", "0", "m">>, memory |-> <<"5", "K", "i">>]>>,
     pods |-> 3]

\* bursting: 1.8 cores of 2 in nanocores (90%, the ratio of NodeA), memory
\* 5000 of 4000 bytes (125%), pods 50% (the ratio of NodeB)
NodeAB ==
    [node |-> [name |-> <<"N", "o", "d", "e", "A", "B">>,
               capacity |-> [cpu |-> <<"2">>, memory |-> <<"4", "0", "0", "0">>],
               allocatable |-> [pods |-> <<"2", "0">>],
               conditions |-> <<Condition("Ready", "True")>>,
               labels |-> [pool |-> "burst"],
               taints |-> <<>>],
     sample |-> <<[cpu |-> <<"1", "8", "0", "0", "0", "0", "0", "0", "0", "0", "n">>,
                   memory |-> <<"5", "K">>]>>,
     pods |-> 10]

\* a usage sample whose CPU quantity does not parse
NodeG ==
    [node |-> [name |-> <<"N", "o", "d", "e", "G">>,
               capacity |-> [cpu |-> <<"1">>, memory |-> <<"4", "K", "i">>],
               allocatable |-> [pods |-> <<"1", "0">>],
               conditions |-> <<Condition("Ready", "True")>>,
               labels |-> [pool |-> "general"],
               taints |-> <<Taint("dedicated")>>],
     sample |-> <<[cpu |-> <<"1", "2", "x">>, memory |-> <<"1", "K", "i">>]>>,
     pods |-> 1]

\* a memory capacity with a suffix parse_memory does not know
NodeH ==
    [node |-> [name |-> <<"N", "o", "d", "e", "H">>,
               capacity |-> [cpu |-> <<"1">>, memory |-> <<"1", "6", "T", "i">>],
               allocatable |-> [pods |-> <<"1", "0">>],
               conditions |-> <<Condition("Ready", "True")>>,
               labels |-> [pool |-> "general"],
               taints |-> <<>>],
     sample |-> <<[cpu |-> <<"1", "0", "0", "m">>, memory |-> <<"1", "K", "i">>]>>,
     pods |-> 2]

Pool == {NodeA, NodeB, NodeC, NodeD, NodeAB, NodeG, NodeH}

\* the node lists the API may serve: distinct nodes, in any order
Clusters ==
    {c \in UNION {[1..k -> Pool] : k \in 0..MaxNodes} :
        \A i, j \in 1..Len(c) : i # j => c[i] # c[j]}

Options ==
    [filter_tainted : BOOLEAN, filter_high_usage : BOOLEAN,
     sort_by : {"cpu", "memory", "pods", "name"}]

Init ==
    /\ pc = "start"
    /\ cluster \in Clusters
    /\ metrics_mode \in {"ok", "raises", "none"}
    /\ opts \in Options
    /\ nodes = <<>>
    /\ summary = NoSummary
    /\ printed = <<>>
    /\ exit_code = 0
    /\ ParseIdle
    /\ ClassIdle

\* nodes = get_node_metrics(core_v1, metrics_api)
GetNodeMetrics ==
    /\ pc = "start"
    /\ Returned(get_node_metrics(cluster, metrics_mode))
    /\ nodes' = get_node_metrics(cluster, metrics_mode).ret
    /\ pc' = "built"
    /\ UNCHANGED <<cluster, metrics_mode, opts, summary, printed, exit_code,
                   parseVars, classVars>>

\* get_node_metrics raised: except Exception, print the error, sys.exit(1)
GetNodeMetricsRaised ==
    /\ pc = "start"
    /\ ~Returned(get_node_metrics(cluster, metrics_mode))
    /\ exit_code' = 1
    /\ pc' = "failed"
    /\ UNCHANGED <<cluster, metrics_mode, opts, nodes, summary, printed,
                   parseVars, classVars>>

\* if filter_tainted: nodes = [n for n in nodes if n.taints]
FilterTainted ==
    /\ pc = "built"
    /\ nodes' = IF opts.filter_tainted THEN SelectSeq(nodes, Tainted) ELSE nodes
    /\ pc' = "filtered_tainted"
    /\ UNCHANGED <<cluster, metrics_mode, opts, summary, printed, exit_code,
                   parseVars, classVars>>

\* if filter_high_usage: nodes = [n for n in nodes if ...]
FilterHighUsage ==
    /\ pc = "filtered_tainted"
    /\ nodes' = IF opts.filter_high_usage THEN SelectSeq(nodes, HighUsage) ELSE nodes
    /\ pc' = "filtered"
    /\ UNCHANGED <<cluster, metrics_mode, opts, summary, printed, exit_code,
                   parseVars, classVars>>

\* nodes.sort(key=..., reverse=...)
Sort ==
    /\ pc = "filtered"
    /\ nodes' = SortNodes(nodes, opts.sort_by)
    /\ pc' = "sorted"
    /\ UNCHANGED <<cluster, metrics_mode, opts, summary, printed, exit_code,
                   parseVars, classVars>>

\* print_summary(get_node_metrics(...)): the summary of the unfiltered records
PrintSummaryOfAll ==
    /\ pc = "sorted"
    /\ summary' = print_summary(get_node_metrics(cluster, metrics_mode).ret)
    /\ pc' = "summarized"
    /\ UNCHANGED <<cluster, metrics_mode, opts, nodes, printed, exit_code,
                   parseVars, classVars>>

\* print_summary(nodes)
PrintSummary ==
    /\ pc = "sorted"
    /\ summary' = print_summary(nodes)
    /\ pc' = "summarized"
    /\ UNCHANGED <<cluster, metrics_mode, opts, nodes, printed, exit_code,
                   parseVars, classVars>>

\* for node in nodes: print_node_details(node); then main returns
PrintNodeDetails ==
    /\ pc = "summarized"
    /\ printed' = [k \in 1..Len(nodes) |-> print_node_details(nodes[k])]
    /\ pc' = "done"
    /\ UNCHANGED <<cluster, metrics_mode, opts, nodes, summary, exit_code,
                   parseVars, classVars>>

Next ==
    \/ GetNodeMetrics
    \/ GetNodeMetricsRaised
    \/ FilterTainted
    \/ FilterHighUsage
    \/ Sort
    \/ PrintSummary
    \/ PrintNodeDetails

Spec == Init /\ [][Next]_vars

\* ===================================================== claims C4, C6 - C10

\* ------------------------------------------------ what the claims speak of

Names(seq) == [k \in 1..Len(seq) |-> seq[k].name]

Served(names) == [k \in 1..Len(names) |-> names[k].node.name]

\* the records get_node_metrics handed to main
Records == get_node_metrics(cluster, metrics_mode).ret

RECURSIVE SumInts(_)
SumInts(ints) ==
    IF ints = <<>> THEN 0 ELSE SumInts(DropLast(ints, 1)) + ints[Len(ints)]

\* a ratio usage / capacity, 0 when the capacity is 0
Ratio(usage, capacity) == IF capacity = 0 THEN Frac(0, 1) ELSE Frac(usage, capacity)

Over75Percent(r) == r.num * 100 > 75 * r.den

HasTaint(n) == Len(n.taints) >= 1

IsHighUsage(n) ==
    \/ Over75Percent(Ratio(n.cpu_usage, n.cpu_capacity))
    \/ Over75Percent(Ratio(n.memory_usage, n.memory_capacity))

\* every enabled predicate holds
Passes(n) ==
    /\ opts.filter_tainted => HasTaint(n)
    /\ opts.filter_high_usage => IsHighUsage(n)

Filtered == SelectSeq(Records, Passes)

KeyOf(n, by) ==
    CASE by = "cpu" -> Ratio(n.cpu_usage, n.cpu_capacity)
      [] by = "memory" -> Ratio(n.memory_usage, n.memory_capacity)
      [] by = "pods" -> Ratio(n.pod_count, n.pod_capacity)

\* a and b are in sorted order (a may precede b)
InOrder(a, b, by) ==
    IF by = "name" THEN ~StrLess(b.name, a.name)
    ELSE ~FracLess(KeyOf(a, by), KeyOf(b, by))

SameKey(a, b, by) ==
    IF by = "name" THEN a.name = b.name ELSE FracEq(KeyOf(a, by), KeyOf(b, by))

Position(seq, x) == CHOOSE k \in 1..Len(seq) : seq[k] = x

\* the bytes a well-formed memory quantity stands for
ExpectedBytes(s) ==
    LET t == Strip(s)
        k == CHOOSE i \in 1..Len(MemorySuffixes) :
                 /\ EndsWith(t, MemorySuffixes[i].suffix)
                 /\ \A j \in 1..(i - 1) : ~EndsWith(t, MemorySuffixes[j].suffix)
        fs == MemorySuffixes[k].factors
        RECURSIVE Product(_)
        Product(q) == IF q = <<>> THEN 1 ELSE Head(q) * Product(Tail(q))
    IN  QuantityValue(t, MemorySuffixes[k].suffix) * Product(fs)

\* the quantity strings get_node_metrics parses for a served node
CapacityWellFormed(e) ==
    /\ IntLiteral(Strip(Get(e.node.capacity, "cpu", <<"0">>)))
    /\ WellFormedMemory(Get(e.node.capacity, "memory", <<"0">>))
    /\ IntLiteral(Strip(Get(e.node.allocatable, "pods", <<"0">>)))

UsageWellFormed(e) ==
    e.sample # <<>> =>
        /\ WellFormedCpu(Get(e.sample[1], "cpu", <<"0">>))
        /\ WellFormedMemory(Get(e.sample[1], "memory", <<"0">>))

NoSample(e) == metrics_mode # "ok" \/ e.sample = <<>>

\* ---------------------------------------------------------------- claim C4

\* C4: a node without a metrics sample (absent from the metrics map, the
\* listing raised, or no metrics client) still gets its record, with
\* cpu_usage = 0 and memory_usage = 0 and every other field from the node
\* descriptor; unavailable metrics never fail the report (a run fails only
\* on a quantity string that does not parse).
C4_NoMetricsSample ==
    /\ pc = "failed" =>
           \E k \in 1..Len(cluster) :
               \/ ~CapacityWellFormed(cluster[k])
               \/ metrics_mode = "ok" /\ ~UsageWellFormed(cluster[k])
    /\ pc = "built" =>
           /\ Names(nodes) = Served(cluster)
           /\ \A k \in 1..Len(cluster) :
                  NoSample(cluster[k]) =>
                      LET e == cluster[k]
                          n == nodes[k]
                      IN  /\ n.cpu_usage = 0
                          /\ n.memory_usage = 0
                          /\ n.cpu_capacity =
                                 1000 * QuantityValue(
                                     Strip(Get(e.node.capacity, "cpu", <<"0">>)), <<>>)
                          /\ n.memory_capacity =
                                 ExpectedBytes(Get(e.node.capacity, "memory", <<"0">>))
                          /\ n.pod_capacity =
                                 QuantityValue(
                                     Strip(Get(e.node.allocatable, "pods", <<"0">>)), <<>>)
                          /\ n.pod_count = e.pods
                          /\ n.status = "Ready" <=>
                                 \E c \in 1..Len(e.node.conditions) :
                                     /\ e.node.conditions[c].type = "Ready"
                                     /\ e.node.conditions[c].status = "True"
                          /\ n.status \in {"Ready", "NotReady"}
                          /\ n.labels = e.node.labels
                          /\ n.conditions = e.node.conditions
                          /\ n.taints = e.node.taints

\* without a metrics client, a node whose sample would not even parse and a
\* node the metrics API never knew were both built, with zero usage
C4_Witness ==
    /\ pc = "built"
    /\ metrics_mode = "none"
    /\ cluster = <<NodeG, NodeC, NodeD>>
    /\ nodes[1].cpu_usage = 0
    /\ nodes[1].cpu_capacity = 1000
    /\ nodes[3].memory_usage = 0
    /\ nodes[3].memory_capacity = 0

\* ---------------------------------------------------------------- claim C6

\* what print_summary was given: nodes does not change after the sort
SummaryHolds(pod_capacity_too) ==
    pc \in {"summarized", "done"} =>
        LET cpu_usage == SumInts([k \in 1..Len(nodes) |-> nodes[k].cpu_usage])
            cpu_capacity == SumInts([k \in 1..Len(nodes) |-> nodes[k].cpu_capacity])
            mem_usage == SumInts([k \in 1..Len(nodes) |-> nodes[k].memory_usage])
            mem_capacity == SumInts([k \in 1..Len(nodes) |-> nodes[k].memory_capacity])
            pod_count == SumInts([k \in 1..Len(nodes) |-> nodes[k].pod_count])
            pod_capacity == SumInts([k \in 1..Len(nodes) |-> nodes[k].pod_capacity])
        IN  /\ summary.total_nodes = Len(nodes)
            /\ summary.ready_nodes =
                   Cardinality({k \in 1..Len(nodes) : nodes[k].status = "Ready"})
            /\ summary.tainted_nodes =
                   Cardinality({k \in 1..Len(nodes) : Len(nodes[k].taints) >= 1})
            /\ summary.total_cpu_usage = cpu_usage
            /\ summary.total_cpu_capacity = cpu_capacity
            /\ summary.total_mem_usage = mem_usage
            /\ summary.total_mem_capacity = mem_capacity
            /\ summary.total_pods = pod_count
            /\ Reduced(summary.cpu_percent) = Reduced(Ratio(100 * cpu_usage, cpu_capacity))
            /\ Reduced(summary.mem_percent) = Reduced(Ratio(100 * mem_usage, mem_capacity))
            /\ cpu_capacity = 0 => summary.cpu_percent.num = 0
            /\ mem_capacity = 0 => summary.mem_percent.num = 0
            /\ pod_capacity_too =>
                   /\ "total_pod_capacity" \in DOMAIN summary
                   /\ summary["total_pod_capacity"] = pod_capacity

\* C6 as claimed: the summary sums usage and capacity for each of CPU,
\* memory and pods, every cluster-wide ratio is sum(usage) / sum(capacity)
\* (0 when sum(capacity) is 0), and it counts the records, the Ready ones
\* and the tainted ones.
C6_AsClaimed == SummaryHolds(TRUE)

\* C6, amended: the summary sums usage and capacity for CPU and for memory
\* and sums the pod counts (pod capacity is not summed and there is no
\* cluster pod ratio); the CPU and the memory ratio are sum(usage) /
\* sum(capacity), never the average of per-node ratios, and 0 when
\* sum(capacity) is 0; totalNodes, readyNodes and taintedNodes count the
\* records, the Ready ones and the ones with a non-empty taint list.
C6_Summary == SummaryHolds(FALSE)

\* nodes of different sizes and a zero-capacity node were summarized: the
\* cluster CPU ratio is 1500 / 3000, the mean of the node ratios is not
C6_Witness ==
    /\ pc = "summarized"
    /\ cluster = <<NodeA, NodeB, NodeD>>
    /\ metrics_mode = "ok"
    /\ Len(nodes) = 3
    /\ FracEq(summary.cpu_percent, Frac(50, 1))
    /\ ~FracEq(MeanPercent(nodes, "cpu_usage", "cpu_capacity"), Frac(50, 1))
    /\ summary.tainted_nodes = 2
    /\ summary.ready_nodes = 1

\* ---------------------------------------------------------------- claim C7

\* C7: the filter stage returns exactly the records satisfying every enabled
\* predicate, in input order (all of them when none is enabled); tainted
\* is a non-empty taint list; high usage is CPU ratio > 75% or memory ratio
\* > 75%, strictly; a zero capacity gives ratio 0 and never satisfies it; a
\* ratio above 100% satisfies it.
C7_Filter ==
    pc = "filtered" =>
        LET records == Records
        IN  /\ nodes = SelectSeq(records, Passes)
            /\ (~opts.filter_tainted /\ ~opts.filter_high_usage) => nodes = records
            /\ opts.filter_high_usage =>
                   \A k \in 1..Len(records) :
                       LET n == records[k]
                           in == \E j \in 1..Len(nodes) : nodes[j] = n
                       IN  /\ (n.cpu_capacity = 0 /\ n.memory_capacity = 0) => ~in
                           /\ (/\ n.cpu_usage * 100 <= 75 * n.cpu_capacity
                               /\ n.memory_usage * 100 <= 75 * n.memory_capacity) => ~in
                           /\ (/\ n.memory_capacity > 0
                               /\ n.memory_usage > n.memory_capacity
                               /\ opts.filter_tainted => HasTaint(n)) => in

\* the high-usage filter kept the node above 100% and dropped the node at
\* exactly 75% and the node with usage but no capacity
C7_Witness ==
    /\ pc = "filtered"
    /\ opts.filter_high_usage
    /\ ~opts.filter_tainted
    /\ metrics_mode = "ok"
    /\ cluster = <<NodeB, NodeD, NodeAB>>
    /\ Names(nodes) = <<NodeAB.node.name>>

\* ---------------------------------------------------------------- claim C8

\* C8: the sort stage outputs a permutation of its input, descending by
\* the CPU, memory or pod-fill ratio (key 0 for a zero capacity) or
\* ascending by name, and it is stable for every key: records with equal
\* keys keep their relative input order.
C8_Sort ==
    pc = "sorted" =>
        LET input == Filtered
        IN  /\ Len(nodes) = Len(input)
            /\ \A k \in 1..Len(input) : \E j \in 1..Len(nodes) : nodes[j] = input[k]
            /\ \A i, j \in 1..Len(nodes) :
                   i < j =>
                       /\ InOrder(nodes[i], nodes[j], opts.sort_by)
                       /\ SameKey(nodes[i], nodes[j], opts.sort_by) =>
                              Position(input, nodes[i]) < Position(input, nodes[j])

\* a descending sort met two ties: NodeAB and NodeA (90%), and the
\* zero-capacity node and the node without metrics (key 0), each in input
\* order
C8_Witness ==
    /\ pc = "sorted"
    /\ opts.sort_by = "cpu"
    /\ metrics_mode = "ok"
    /\ cluster = <<NodeD, NodeAB, NodeA>>
    /\ Names(nodes) = <<NodeAB.node.name, NodeA.node.name, NodeD.node.name>>

\* ---------------------------------------------------------------- claim C9

StageOrder ==
    <<pc, pc'>> \in {<<"start", "built">>, <<"start", "failed">>,
                    <<"built", "filtered_tainted">>,
                    <<"filtered_tainted", "filtered">>,
                    <<"filtered", "sorted">>,
                    <<"sorted", "summarized">>,
                    <<"summarized", "done">>}

Scenario == {cluster[k] : k \in 1..Len(cluster)} = {NodeA, NodeB, NodeC}
                /\ metrics_mode = "ok"

StageResults ==
    LET filtered == Filtered
    IN  /\ pc = "built" => nodes = Records
        /\ pc = "filtered" => nodes = filtered
        /\ pc \in {"sorted", "summarized", "done"} =>
               /\ {nodes[k] : k \in 1..Len(nodes)} =
                      {filtered[k] : k \in 1..Len(filtered)}
               /\ \A i, j \in 1..Len(nodes) :
                      i < j => InOrder(nodes[i], nodes[j], opts.sort_by)
        /\ pc \in {"start", "built", "filtered_tainted", "filtered", "sorted", "failed"} =>
               summary = NoSummary
        /\ pc \in {"summarized", "done"} =>
               /\ summary.total_nodes = Len(filtered)
               /\ summary.total_cpu_usage =
                      SumInts([k \in 1..Len(filtered) |-> filtered[k].cpu_usage])
               /\ summary.total_cpu_capacity =
                      SumInts([k \in 1..Len(filtered) |-> filtered[k].cpu_capacity])
               /\ summary.total_pods =
                      SumInts([k \in 1..Len(filtered) |-> filtered[k].pod_count])
        /\ pc # "done" => printed = <<>>
        /\ pc = "done" => [k \in 1..Len(printed) |-> printed[k].title] = Names(nodes)
        /\ Scenario =>
               /\ (pc = "filtered" /\ opts.filter_tainted /\ ~opts.filter_high_usage) =>
                      Names(nodes) = <<NodeB.node.name>>
               /\ (/\ pc = "sorted"
                   /\ ~opts.filter_tainted
                   /\ ~opts.filter_high_usage
                   /\ opts.sort_by = "cpu") =>
                      Names(nodes) =
                          <<NodeA.node.name, NodeB.node.name, NodeC.node.name>>
               /\ (/\ pc = "summarized"
                   /\ ~opts.filter_tainted
                   /\ ~opts.filter_high_usage) =>
                      /\ summary.total_cpu_usage = 900 + 100 + 0
                      /\ summary.total_cpu_capacity = 1000 + 2000 + 1000
                      /\ FracEq(summary.cpu_percent, Frac(25, 1))

\* C9: a run builds all records, then filters, then sorts, then summarizes,
\* then emits the node details; the sort is applied to the filtered records,
\* the summary is computed from exactly the filtered records, the details
\* come in sorted order. For NodeA (900m of 1000m, no taint), NodeB (100m of
\* 2000m, one taint), NodeC (no metrics, 1000m): the tainted filter yields
\* [NodeB], the CPU sort of all three [NodeA, NodeB, NodeC], the unfiltered
\* cluster CPU ratio is 25%.
C9_Stages == []StageResults /\ [][StageOrder]_vars

\* a run on a filtered, reordered record set reached its end: the summary
\* counts the two tainted records, the details come in sorted order
C9_Witness ==
    /\ pc = "done"
    /\ opts = [filter_tainted |-> TRUE, filter_high_usage |-> FALSE, sort_by |-> "cpu"]
    /\ metrics_mode = "ok"
    /\ cluster = <<NodeD, NodeA, NodeB>>
    /\ summary.total_nodes = 2
    /\ summary.total_cpu_capacity = 2000
    /\ [k \in 1..Len(printed) |-> printed[k].title] = <<NodeB.node.name, NodeD.node.name>>

\* --------------------------------------------------------------- claim C10

\* C10: a malformed quantity string in one node's data fails that node's
\* record only: the caller still obtains the record of every other node.
C10_PerNodeFailure ==
    pc = "failed" =>
        \A k \in 1..Len(cluster) :
            Returned(BuildNode(cluster[k],
                               MetricsMap(list_node_metrics(metrics_mode, cluster))))
                => \E j \in 1..Len(nodes) : nodes[j].name = cluster[k].node.name

====
